---- MODULE Spec2Model ----
(***************************************************************************)
(* Android SafetyNet attestation verification                              *)
(* (attestation/androidsafetynet/androidsafetynet.go).                     *)
(*                                                                         *)
(* verifyAndroidSafetynet is modelled statement by statement: every call   *)
(* has a position pc[c], its own locals, and the result it returns.  The   *)
(* byte storage behind the slices lives in heap, so that append's writes   *)
(* into spare capacity are visible to whoever shares the backing array.    *)
(***************************************************************************)
EXTENDS Integers, Sequences, FiniteSets, TLC

(* ------------------------------ bounds -------------------------------- *)
\* longest authenticator data (a.AuthData.Raw) in bytes
MaxRaw == 1
\* longest clientDataHash in bytes
MaxCdh == 1

\* byte values
Bytes == {0, 1}
\* values the clock provider can return
Times == {0, 1, 2}
\* numbers of signatures a parsed JWS carries
SigCounts == {1, 2}

VARIABLES
    heap,            \* backing arrays: 0 is the caller's buffer, c the array append allocates in call c
    buf0,            \* the caller's buffer as it was handed over
    att,             \* att[c]: the protocol.Attestation of call c (AttStmt map, AuthData.Raw slice header)
    clientDataHash,  \* clientDataHash[c]
    pc,              \* position of call c in verifyAndroidSafetynet
    CurrentTime,     \* x509.VerifyOptions.CurrentTime of call c, -1 before now() is read
    nonceBytes,      \* slice header (arr, len) of nonceBytes
    k,               \* bytes copied / hashed so far in the running byte loop
    msg,             \* bytes sha256 has consumed so far
    expectedNonce,   \* sha256.Sum256(nonceBytes), <<>> before it is computed
    ret,             \* the error returned by call c
    trace,           \* the checks call c has executed, in order
    clockReads       \* how often call c invoked now()

vars == <<heap, buf0, att, clientDataHash, pc, CurrentTime, nonceBytes, k, msg,
          expectedNonce, ret, trace, clockReads>>

(* ------------------------- byte sequences ----------------------------- *)
SeqsUpTo(n) == UNION {[1..m -> Bytes] : m \in 0..n}

Zeros(n) == [i \in 1..n |-> 0]

\* the bytes a slice header denotes in heap h
SliceBytes(h, s) == SubSeq(h[s.arr], 1, s.len)

(* --------------------------- crypto/sha256 ---------------------------- *)
\* Digest length: sha256.Size scaled to the bounded message space.
Size == MaxRaw + MaxCdh + 1

Base == Cardinality(Bytes)

RECURSIVE Pow(_, _)
Pow(b, n) == IF n = 0 THEN 1 ELSE b * Pow(b, n - 1)

RECURSIVE Val(_)
Val(s) == IF s = <<>> THEN 0 ELSE Val(SubSeq(s, 1, Len(s) - 1)) * Base + s[Len(s)]

\* position of message s among all messages, shorter ones first
Index(s) == (Pow(Base, Len(s)) - 1) \div (Base - 1) + Val(s)

\* the digest of message s: its position written with Size digits
Digest(s) == [i \in 1..Size |-> (Index(s) \div Pow(Base, Size - i)) % Base]

\* the digests of all messages of the bounded message space
DigestTable == [s \in SeqsUpTo(MaxRaw + MaxCdh) |-> Digest(s)]

\* sha256.Sum256: a fixed-length digest, collision-free on the bounded message
\* space (collision resistance), and not the message itself.
Sum256(s) == DigestTable[s]

\* mutant of BytesEqual: bytes.HasPrefix(a, b) in place of bytes.Equal(a, b)
BytesEqual_prefix(a, b) == Len(b) <= Len(a) /\ SubSeq(a, 1, Len(b)) = b

\* bytes.Equal
BytesEqual(a, b) == a = b

(* ----------------------------- certificates --------------------------- *)
PinnedDNSName == "attest.android.com"

LeafKey == "leafKey"
OtherKey == "otherKey"

\* the leaf is valid from time 1 on, the intermediate until the last time but one
LeafCert(name) == [DNSName |-> name, NotBefore |-> 1, NotAfter |-> 2, PublicKey |-> LeafKey]
IntermediateCert == [DNSName |-> "GTS CA 1O1", NotBefore |-> 0, NotAfter |-> 1, PublicKey |-> "caKey"]

\* protected headers: no x5c, or leaf + intermediate issued (or not) by a trusted root
ProtectedHeaders ==
    {[x5c |-> <<>>, issuerTrusted |-> FALSE]} \cup
    {[x5c |-> <<LeafCert(n), IntermediateCert>>, issuerTrusted |-> t] :
        n \in {PinnedDNSName, "evil.example.com"}, t \in BOOLEAN}

\* Header.Certificates(opts): the error of parsing x5c and verifying the leaf
\* against the system roots with the rest of x5c as intermediates
CertificatesErr(protected, opts) ==
    IF protected.x5c = <<>>
    THEN "square/go-jose: no x5c header present in message"
    ELSE IF \E i \in 1..Len(protected.x5c) :
                \/ opts.CurrentTime < protected.x5c[i].NotBefore
                \/ opts.CurrentTime > protected.x5c[i].NotAfter
    THEN "x509: certificate has expired or is not yet valid"
    ELSE IF opts.DNSName # "" /\ protected.x5c[1].DNSName # opts.DNSName
    THEN "x509: certificate is not valid for the requested name"
    ELSE IF ~protected.issuerTrusted
    THEN "x509: certificate signed by unknown authority"
    ELSE "nil"

\* Header.Certificates(opts) on success: the verified chains
Certificates(protected) == <<protected.x5c>>

(* ------------------------------ go-jose ------------------------------- *)
\* jose.ParseSigned: the bytes of a response are represented by what they parse to
ParseSignedErr(responseBytes) ==
    IF responseBytes.wellFormed THEN "nil"
    ELSE "square/go-jose: compact JWS format must have three parts"

\* JSONWebSignature.Verify(key): the signature verifies under key
VerifyErr(response, key) ==
    IF response.Signatures[1].signer = key THEN "nil"
    ELSE "square/go-jose: error in cryptographic primitive"

(* ---------------------------- encoding/json --------------------------- *)
\* json.Unmarshal(payload, &attestationResponse)
UnmarshalErr(payload) ==
    IF payload.json THEN "nil"
    ELSE "json: cannot unmarshal string into Go value of type androidsafetynet.AndroidSafetyNetAttestionResponse"

\* the decoded struct
AndroidSafetyNetAttestionResponse(payload) ==
    [Nonce |-> payload.nonce,
     TimestampMs |-> payload.timestampMs,
     CtsProfileMatch |-> payload.ctsProfileMatch,
     BasicIntegrity |-> payload.basicIntegrity]

(* ------------------------------ errors -------------------------------- *)
Nil == [isNil |-> TRUE, kind |-> "", debug |-> <<"", "">>, cause |-> "nil"]

ErrInvalidAttestation ==
    [isNil |-> FALSE, kind |-> "ErrInvalidAttestation", debug |-> <<"", "">>, cause |-> "nil"]

WithDebug(e, text) == [e EXCEPT !.debug = <<text, "">>]

WithDebugf(e, format, arg) == [e EXCEPT !.debug = <<format, arg>>]

WithCause(e, err) == [e EXCEPT !.cause = err]

(* ------------------- verifyAndroidSafetynet, step by step -------------- *)
Goto(c, next) == pc' = [pc EXCEPT ![c] = next] /\ ret' = ret

Return(c, e) == pc' = [pc EXCEPT ![c] = "done"] /\ ret' = [ret EXCEPT ![c] = e]

Ran(c, check) == trace' = [trace EXCEPT ![c] = Append(@, check)]

\* what the response bytes of call c hold
Response(c) == att[c].AttStmt["response"].bytes

\* mutant of ExtractVer: the ver == "" check is missing
ExtractVer_emptyAccepted(c) ==
    /\ pc[c] = "ver"
    /\ Ran(c, "ver")
    /\ LET AttStmt == att[c].AttStmt IN
       IF "ver" \notin DOMAIN AttStmt
       THEN Return(c, WithDebug(ErrInvalidAttestation, "missing ver for android-safetynet"))
       ELSE IF AttStmt["ver"].type # "string"
       THEN Return(c, WithDebugf(ErrInvalidAttestation,
                "invalid ver for android-safetynet, is of invalid type %T", AttStmt["ver"].type))
       ELSE Goto(c, "response")
    /\ UNCHANGED <<heap, buf0, att, clientDataHash, CurrentTime, nonceBytes, k, msg,
                   expectedNonce, clockReads>>

\* lines 35-46: rawVer, ok := a.AttStmt["ver"]; ver, ok := rawVer.(string); ver == ""
ExtractVer(c) ==
    /\ pc[c] = "ver"
    /\ Ran(c, "ver")
    /\ LET AttStmt == att[c].AttStmt IN
       IF "ver" \notin DOMAIN AttStmt
       THEN Return(c, WithDebug(ErrInvalidAttestation, "missing ver for android-safetynet"))
       ELSE IF AttStmt["ver"].type # "string"
       THEN Return(c, WithDebugf(ErrInvalidAttestation,
                "invalid ver for android-safetynet, is of invalid type %T", AttStmt["ver"].type))
       ELSE IF AttStmt["ver"].str = ""
       THEN Return(c, WithDebug(ErrInvalidAttestation, "invalid ver for android-safetynet"))
       ELSE Goto(c, "response")
    /\ UNCHANGED <<heap, buf0, att, clientDataHash, CurrentTime, nonceBytes, k, msg,
                   expectedNonce, clockReads>>

\* lines 48-55: rawResponse, ok := a.AttStmt["response"]; responseBytes, ok := rawResponse.([]byte)
ExtractResponse(c) ==
    /\ pc[c] = "response"
    /\ Ran(c, "response")
    /\ LET AttStmt == att[c].AttStmt IN
       IF "response" \notin DOMAIN AttStmt
       THEN Return(c, WithDebug(ErrInvalidAttestation, "missing response for android-safetynet"))
       ELSE IF AttStmt["response"].type # "[]uint8"
       THEN Return(c, WithDebugf(ErrInvalidAttestation,
                "invalid response for android-safetynet, is of invalid type %T", "[]uint8"))
       ELSE Goto(c, "parse")
    /\ UNCHANGED <<heap, buf0, att, clientDataHash, CurrentTime, nonceBytes, k, msg,
                   expectedNonce, clockReads>>

\* lines 57-60: response, err := jose.ParseSigned(string(responseBytes))
ParseSigned(c) ==
    /\ pc[c] = "parse"
    /\ Ran(c, "parse")
    /\ LET err == ParseSignedErr(Response(c)) IN
       IF err # "nil"
       THEN Return(c, WithDebugf(ErrInvalidAttestation,
                "invalid response for android-safetynet: %v", err))
       ELSE Goto(c, "count")
    /\ UNCHANGED <<heap, buf0, att, clientDataHash, CurrentTime, nonceBytes, k, msg,
                   expectedNonce, clockReads>>

\* mutant of CountSignatures: len(response.Signatures) < 1
CountSignatures_atLeastOne(c) ==
    /\ pc[c] = "count"
    /\ Ran(c, "count")
    /\ IF Len(Response(c).Signatures) < 1
       THEN Return(c, WithDebugf(ErrInvalidAttestation,
                "invalid response for android-safetynet: more or less than 1 signature", ""))
       ELSE Goto(c, "certificates")
    /\ UNCHANGED <<heap, buf0, att, clientDataHash, CurrentTime, nonceBytes, k, msg,
                   expectedNonce, clockReads>>

\* lines 62-64: len(response.Signatures) != 1
CountSignatures(c) ==
    /\ pc[c] = "count"
    /\ Ran(c, "count")
    /\ IF Len(Response(c).Signatures) # 1
       THEN Return(c, WithDebugf(ErrInvalidAttestation,
                "invalid response for android-safetynet: more or less than 1 signature", ""))
       ELSE Goto(c, "certificates")
    /\ UNCHANGED <<heap, buf0, att, clientDataHash, CurrentTime, nonceBytes, k, msg,
                   expectedNonce, clockReads>>

\* mutant of VerifyCertificates: VerifyOptions without DNSName
VerifyCertificates_noDNSName(c) ==
    /\ pc[c] = "certificates"
    /\ Ran(c, "certificates")
    /\ \E t \in Times :
         /\ CurrentTime' = [CurrentTime EXCEPT ![c] = t]
         /\ clockReads' = [clockReads EXCEPT ![c] = @ + 1]
         /\ LET opts == [DNSName |-> "", CurrentTime |-> t]
                err == CertificatesErr(Response(c).Signatures[1].Protected, opts) IN
            IF err # "nil"
            THEN Return(c, WithCause(WithDebugf(ErrInvalidAttestation,
                     "invalid response for android-safetynet: %v", err), err))
            ELSE Goto(c, "verify")
    /\ UNCHANGED <<heap, buf0, att, clientDataHash, nonceBytes, k, msg, expectedNonce>>

\* mutant of VerifyCertificates: now() is called a second time
VerifyCertificates_twoReadings(c) ==
    /\ pc[c] = "certificates"
    /\ Ran(c, "certificates")
    /\ \E t \in Times :
         /\ CurrentTime' = [CurrentTime EXCEPT ![c] = t]
         /\ clockReads' = [clockReads EXCEPT ![c] = @ + 2]
         /\ LET opts == [DNSName |-> PinnedDNSName, CurrentTime |-> t]
                err == CertificatesErr(Response(c).Signatures[1].Protected, opts) IN
            IF err # "nil"
            THEN Return(c, WithCause(WithDebugf(ErrInvalidAttestation,
                     "invalid response for android-safetynet: %v", err), err))
            ELSE Goto(c, "verify")
    /\ UNCHANGED <<heap, buf0, att, clientDataHash, nonceBytes, k, msg, expectedNonce>>

\* lines 67-73: response.Signatures[0].Protected.Certificates(x509.VerifyOptions{
\*   DNSName: "attest.android.com", CurrentTime: now()})
VerifyCertificates(c) ==
    /\ pc[c] = "certificates"
    /\ Ran(c, "certificates")
    /\ \E t \in Times :
         /\ CurrentTime' = [CurrentTime EXCEPT ![c] = t]
         /\ clockReads' = [clockReads EXCEPT ![c] = @ + 1]
         /\ LET opts == [DNSName |-> PinnedDNSName, CurrentTime |-> t]
                err == CertificatesErr(Response(c).Signatures[1].Protected, opts) IN
            IF err # "nil"
            THEN Return(c, WithCause(WithDebugf(ErrInvalidAttestation,
                     "invalid response for android-safetynet: %v", err), err))
            ELSE Goto(c, "verify")
    /\ UNCHANGED <<heap, buf0, att, clientDataHash, nonceBytes, k, msg, expectedNonce>>

\* mutant of VerifySignature: the error of response.Verify is dropped
VerifySignature_errIgnored(c) ==
    /\ pc[c] = "verify"
    /\ Ran(c, "verify")
    /\ Goto(c, "unmarshal")
    /\ UNCHANGED <<heap, buf0, att, clientDataHash, CurrentTime, nonceBytes, k, msg,
                   expectedNonce, clockReads>>

\* lines 74-79: leaf := cert[0][0]; payload, err := response.Verify(leaf.PublicKey)
VerifySignature(c) ==
    /\ pc[c] = "verify"
    /\ Ran(c, "verify")
    /\ LET cert == Certificates(Response(c).Signatures[1].Protected)
           leaf == cert[1][1]
           err == VerifyErr(Response(c), leaf.PublicKey) IN
       IF err # "nil"
       THEN Return(c, WithCause(WithDebugf(ErrInvalidAttestation,
                "invalid response for android-safetynet: %v", err), err))
       ELSE Goto(c, "unmarshal")
    /\ UNCHANGED <<heap, buf0, att, clientDataHash, CurrentTime, nonceBytes, k, msg,
                   expectedNonce, clockReads>>

\* lines 81-85: json.Unmarshal(payload, &attestationResponse)
Unmarshal(c) ==
    /\ pc[c] = "unmarshal"
    /\ Ran(c, "unmarshal")
    /\ LET err == UnmarshalErr(Response(c).payload) IN
       IF err # "nil"
       THEN Return(c, WithDebugf(ErrInvalidAttestation,
                "invalid response for android-safetynet: %v", err))
       ELSE Goto(c, "append")
    /\ UNCHANGED <<heap, buf0, att, clientDataHash, CurrentTime, nonceBytes, k, msg,
                   expectedNonce, clockReads>>

\* line 88: nonceBytes := append(a.AuthData.Raw, clientDataHash...)
\* With too little capacity append allocates a fresh array and copies both parts
\* into it; otherwise it copies clientDataHash, byte by byte, into the array
\* behind a.AuthData.Raw, right after its length.
AppendClientDataHash(c) ==
    /\ pc[c] = "append"
    /\ LET Raw == att[c].AuthData.Raw
           n == Len(clientDataHash[c]) IN
       IF Raw.len + n > Len(heap[Raw.arr])
       THEN /\ heap' = [heap EXCEPT ![c] = SliceBytes(heap, Raw) \o clientDataHash[c]]
            /\ nonceBytes' = [nonceBytes EXCEPT ![c] = [arr |-> c, len |-> Raw.len + n]]
            /\ k' = k
            /\ Ran(c, "append")
            /\ Goto(c, "sum")
       ELSE IF k[c] < n
       THEN /\ heap' = [heap EXCEPT ![Raw.arr][Raw.len + k[c] + 1] = clientDataHash[c][k[c] + 1]]
            /\ k' = [k EXCEPT ![c] = @ + 1]
            /\ UNCHANGED <<nonceBytes, trace, pc, ret>>
       ELSE /\ nonceBytes' = [nonceBytes EXCEPT ![c] = [arr |-> Raw.arr, len |-> Raw.len + n]]
            /\ k' = [k EXCEPT ![c] = 0]
            /\ heap' = heap
            /\ Ran(c, "append")
            /\ Goto(c, "sum")
    /\ UNCHANGED <<buf0, att, clientDataHash, CurrentTime, msg, expectedNonce, clockReads>>

\* line 89: expectedNonce := sha256.Sum256(nonceBytes), reading nonceBytes byte by byte
Sum(c) ==
    /\ pc[c] = "sum"
    /\ IF k[c] < nonceBytes[c].len
       THEN /\ msg' = [msg EXCEPT ![c] = Append(@, heap[nonceBytes[c].arr][k[c] + 1])]
            /\ k' = [k EXCEPT ![c] = @ + 1]
            /\ UNCHANGED <<expectedNonce, trace, pc, ret>>
       ELSE /\ expectedNonce' = [expectedNonce EXCEPT ![c] = Sum256(msg[c])]
            /\ Ran(c, "sum")
            /\ Goto(c, "nonce")
            /\ UNCHANGED <<msg, k>>
    /\ UNCHANGED <<heap, buf0, att, clientDataHash, CurrentTime, nonceBytes, clockReads>>

\* mutant of CompareNonce: the return after the failed comparison is missing
CompareNonce_noReturn(c) ==
    /\ pc[c] = "nonce"
    /\ Ran(c, "nonce")
    /\ Goto(c, "cts")
    /\ UNCHANGED <<heap, buf0, att, clientDataHash, CurrentTime, nonceBytes, k, msg,
                   expectedNonce, clockReads>>

\* lines 91-93: !bytes.Equal(expectedNonce[:], attestationResponse.Nonce)
CompareNonce(c) ==
    /\ pc[c] = "nonce"
    /\ Ran(c, "nonce")
    /\ LET attestationResponse == AndroidSafetyNetAttestionResponse(Response(c).payload) IN
       IF ~BytesEqual(expectedNonce[c], attestationResponse.Nonce)
       THEN Return(c, WithDebugf(ErrInvalidAttestation,
                "invalid response for android-safetynet: invalid nonce", ""))
       ELSE Goto(c, "cts")
    /\ UNCHANGED <<heap, buf0, att, clientDataHash, CurrentTime, nonceBytes, k, msg,
                   expectedNonce, clockReads>>

\* mutant of CheckCtsProfileMatch: basicIntegrity gates as well
CheckCtsProfileMatch_andBasicIntegrity(c) ==
    /\ pc[c] = "cts"
    /\ Ran(c, "cts")
    /\ LET attestationResponse == AndroidSafetyNetAttestionResponse(Response(c).payload) IN
       IF ~(attestationResponse.CtsProfileMatch /\ attestationResponse.BasicIntegrity)
       THEN Return(c, WithDebugf(ErrInvalidAttestation,
                "invalid response for android-safetynet: does not match CTS profile", ""))
       ELSE Return(c, Nil)
    /\ UNCHANGED <<heap, buf0, att, clientDataHash, CurrentTime, nonceBytes, k, msg,
                   expectedNonce, clockReads>>

\* lines 96-101: !attestationResponse.CtsProfileMatch; return nil
CheckCtsProfileMatch(c) ==
    /\ pc[c] = "cts"
    /\ Ran(c, "cts")
    /\ LET attestationResponse == AndroidSafetyNetAttestionResponse(Response(c).payload) IN
       IF ~attestationResponse.CtsProfileMatch
       THEN Return(c, WithDebugf(ErrInvalidAttestation,
                "invalid response for android-safetynet: does not match CTS profile", ""))
       ELSE Return(c, Nil)
    /\ UNCHANGED <<heap, buf0, att, clientDataHash, CurrentTime, nonceBytes, k, msg,
                   expectedNonce, clockReads>>

\* the whole function on one call's inputs: raw is the value of a.AuthData.Raw
\* and t the value now() returns if it is asked
verifyAndroidSafetynet(a, cdh, raw, t) ==
    IF "ver" \notin DOMAIN a.AttStmt
    THEN WithDebug(ErrInvalidAttestation, "missing ver for android-safetynet")
    ELSE IF a.AttStmt["ver"].type # "string"
    THEN WithDebugf(ErrInvalidAttestation,
             "invalid ver for android-safetynet, is of invalid type %T", a.AttStmt["ver"].type)
    ELSE IF a.AttStmt["ver"].str = ""
    THEN WithDebug(ErrInvalidAttestation, "invalid ver for android-safetynet")
    ELSE IF "response" \notin DOMAIN a.AttStmt
    THEN WithDebug(ErrInvalidAttestation, "missing response for android-safetynet")
    ELSE IF a.AttStmt["response"].type # "[]uint8"
    THEN WithDebugf(ErrInvalidAttestation,
             "invalid response for android-safetynet, is of invalid type %T", "[]uint8")
    ELSE LET response == a.AttStmt["response"].bytes IN
    IF ParseSignedErr(response) # "nil"
    THEN WithDebugf(ErrInvalidAttestation,
             "invalid response for android-safetynet: %v", ParseSignedErr(response))
    ELSE IF Len(response.Signatures) # 1
    THEN WithDebugf(ErrInvalidAttestation,
             "invalid response for android-safetynet: more or less than 1 signature", "")
    ELSE LET certErr == CertificatesErr(response.Signatures[1].Protected,
                            [DNSName |-> PinnedDNSName, CurrentTime |-> t]) IN
    IF certErr # "nil"
    THEN WithCause(WithDebugf(ErrInvalidAttestation,
             "invalid response for android-safetynet: %v", certErr), certErr)
    ELSE LET leaf == Certificates(response.Signatures[1].Protected)[1][1]
             sigErr == VerifyErr(response, leaf.PublicKey) IN
    IF sigErr # "nil"
    THEN WithCause(WithDebugf(ErrInvalidAttestation,
             "invalid response for android-safetynet: %v", sigErr), sigErr)
    ELSE IF UnmarshalErr(response.payload) # "nil"
    THEN WithDebugf(ErrInvalidAttestation,
             "invalid response for android-safetynet: %v", UnmarshalErr(response.payload))
    ELSE LET attestationResponse == AndroidSafetyNetAttestionResponse(response.payload) IN
    IF ~BytesEqual(Sum256(raw \o cdh), attestationResponse.Nonce)
    THEN WithDebugf(ErrInvalidAttestation,
             "invalid response for android-safetynet: invalid nonce", "")
    ELSE IF ~attestationResponse.CtsProfileMatch
    THEN WithDebugf(ErrInvalidAttestation,
             "invalid response for android-safetynet: does not match CTS profile", "")
    ELSE Nil

Next ==
    \/ \E c \in DOMAIN pc : ExtractVer(c)
    \/ \E c \in DOMAIN pc : ExtractResponse(c)
    \/ \E c \in DOMAIN pc : ParseSigned(c)
    \/ \E c \in DOMAIN pc : CountSignatures(c)
    \/ \E c \in DOMAIN pc : VerifyCertificates(c)
    \/ \E c \in DOMAIN pc : VerifySignature(c)
    \/ \E c \in DOMAIN pc : Unmarshal(c)
    \/ \E c \in DOMAIN pc : AppendClientDataHash(c)
    \/ \E c \in DOMAIN pc : Sum(c)
    \/ \E c \in DOMAIN pc : CompareNonce(c)
    \/ \E c \in DOMAIN pc : CheckCtsProfileMatch(c)

(* ------------------------------- inputs ------------------------------- *)
Raws == SeqsUpTo(MaxRaw)
Cdhs == SeqsUpTo(MaxCdh)

\* nonces a payload can carry in a call on (raw, cdh): none, the digest of that
\* pair, of a pair with another raw or another clientDataHash, and the expected
\* digest cut short or extended
Nonces(raw, cdh) ==
    {<<>>}
    \cup {Sum256(r \o cdh) : r \in Raws}
    \cup {Sum256(raw \o h) : h \in Cdhs}
    \cup {SubSeq(Sum256(raw \o cdh), 1, Size - 1)}
    \cup {Sum256(raw \o cdh) \o <<b>> : b \in Bytes}

Payloads(raw, cdh) ==
    {[json |-> FALSE, nonce |-> <<>>, timestampMs |-> 0, ctsProfileMatch |-> FALSE,
      basicIntegrity |-> FALSE]}
    \cup {[json |-> TRUE, nonce |-> n, timestampMs |-> 0, ctsProfileMatch |-> m,
           basicIntegrity |-> b] :
            n \in Nonces(raw, cdh), m \in BOOLEAN, b \in BOOLEAN}

\* what the response bytes hold: not a JWS, or a JWS with its signatures
\* (all alike), the key that signed it, and its payload
ResponseBytes(raw, cdh) ==
    {[wellFormed |-> FALSE]}
    \cup {[wellFormed |-> TRUE,
           Signatures |-> [i \in 1..n |-> [Protected |-> h, signer |-> s]],
           payload |-> p] :
            n \in SigCounts, h \in ProtectedHeaders, s \in {LeafKey, OtherKey},
            p \in Payloads(raw, cdh)}

Absent == [type |-> "absent"]

VerValues ==
    {Absent, [type |-> "int64"], [type |-> "string", str |-> ""],
     [type |-> "string", str |-> "14"]}

ResponseValues(raw, cdh) ==
    {Absent, [type |-> "string", str |-> "eyJ"]}
    \cup {[type |-> "[]uint8", bytes |-> b] : b \in ResponseBytes(raw, cdh)}

\* the AttStmt map holding the entries that are present
AttStmtOf(ver, response) ==
    [key \in (IF ver = Absent THEN {} ELSE {"ver"})
             \cup (IF response = Absent THEN {} ELSE {"response"})
        |-> IF key = "ver" THEN ver ELSE response]

AttestationOf(ver, response, raw) ==
    [AttStmt |-> AttStmtOf(ver, response),
     AuthData |-> [Raw |-> [arr |-> 0, len |-> Len(raw)]]]

\* the locals of a call that has not started
InitLocals(calls) ==
    /\ pc = [c \in calls |-> "ver"]
    /\ CurrentTime = [c \in calls |-> -1]
    /\ nonceBytes = [c \in calls |-> [arr |-> 0, len |-> 0]]
    /\ k = [c \in calls |-> 0]
    /\ msg = [c \in calls |-> <<>>]
    /\ expectedNonce = [c \in calls |-> <<>>]
    /\ ret = [c \in calls |-> Nil]
    /\ trace = [c \in calls |-> <<>>]
    /\ clockReads = [c \in calls |-> 0]

\* one call, on any statement, any authenticator data (with or without spare
\* capacity behind it) and any clientDataHash
Init ==
    \E raw \in Raws, cdh \in Cdhs, spare \in {0, MaxCdh} :
      \E ver \in VerValues, response \in ResponseValues(raw, cdh) :
        /\ buf0 = raw \o Zeros(spare)
        /\ heap = [a \in 0..1 |-> IF a = 0 THEN buf0 ELSE <<>>]
        /\ att = [c \in {1} |-> AttestationOf(ver, response, raw)]
        /\ clientDataHash = [c \in {1} |-> cdh]
        /\ InitLocals({1})

Spec == Init /\ [][Next]_vars

\* a response that passes every check up to the nonce comparison
SignedResponses(nonces) ==
    {[type |-> "[]uint8",
      bytes |-> [wellFormed |-> TRUE,
                 Signatures |-> <<[Protected |-> [x5c |-> <<LeafCert(PinnedDNSName), IntermediateCert>>,
                                                  issuerTrusted |-> TRUE],
                                   signer |-> LeafKey]>>,
                 payload |-> [json |-> TRUE, nonce |-> n, timestampMs |-> 0,
                              ctsProfileMatch |-> TRUE, basicIntegrity |-> TRUE]]] :
        n \in nonces}

\* two calls running at once on authenticator data that share one backing
\* array, each with its own clientDataHash and its own signed response
InitConcurrent ==
    \E raw \in Raws, spare \in {0, MaxCdh}, cdh1 \in Cdhs, cdh2 \in Cdhs :
      LET nonces == {Sum256(raw \o cdh1), Sum256(raw \o cdh2)} IN
      \E r1 \in SignedResponses(nonces), r2 \in SignedResponses(nonces) :
        /\ buf0 = raw \o Zeros(spare)
        /\ heap = [a \in 0..2 |-> IF a = 0 THEN buf0 ELSE <<>>]
        /\ att = [c \in {1, 2} |->
                    AttestationOf([type |-> "string", str |-> "14"],
                                  IF c = 1 THEN r1 ELSE r2, raw)]
        /\ clientDataHash = [c \in {1, 2} |-> IF c = 1 THEN cdh1 ELSE cdh2]
        /\ InitLocals({1, 2})

SpecConcurrent == InitConcurrent /\ [][Next]_vars

(* ====================================================================== *)
(* Properties                                                             *)
(* ====================================================================== *)
Done(c) == pc[c] = "done"

Failed(c) == Done(c) /\ ~ret[c].isNil

Last(t) == t[Len(t)]

Checks(c) == {trace[c][i] : i \in 1..Len(trace[c])}

\* call c returned a failure from the given check
FailedAt(c, check) == Failed(c) /\ trace[c] # <<>> /\ Last(trace[c]) = check

\* the order of the checks in the function body
Order == <<"ver", "response", "parse", "count", "certificates", "verify", "unmarshal",
           "append", "sum", "nonce", "cts">>

\* the failure kinds of the error taxonomy, by the check that returns the failure
KindOfCheck(check) ==
    CASE check \in {"ver", "response"} -> "MalformedStatement"
      [] check \in {"parse", "count"} -> "MalformedSignature"
      [] check = "certificates" -> "UntrustedCertificate"
      [] check = "verify" -> "SignatureInvalid"
      [] check = "unmarshal" -> "MalformedPayload"
      [] check \in {"append", "sum", "nonce"} -> "NonceMismatch"
      [] check = "cts" -> "IntegrityPolicyViolation"
      [] OTHER -> "none"

FailsWith(c, kind) == Failed(c) /\ trace[c] # <<>> /\ KindOfCheck(Last(trace[c])) = kind

\* the value of a.AuthData.Raw the caller handed to call c
RawOf(c) == SubSeq(buf0, 1, att[c].AuthData.Raw.len)

\* the conditions of the contract, stated on the inputs of call c
VerOK(c) ==
    /\ "ver" \in DOMAIN att[c].AttStmt
    /\ att[c].AttStmt["ver"].type = "string"
    /\ att[c].AttStmt["ver"].str # ""

ResponseOK(c) ==
    /\ "response" \in DOMAIN att[c].AttStmt
    /\ att[c].AttStmt["response"].type = "[]uint8"

ParsesOK(c) == ResponseOK(c) /\ Response(c).wellFormed

OneSignature(c) == ParsesOK(c) /\ Len(Response(c).Signatures) = 1

\* the chain validates: leaf identity pinned, t inside every validity window, trusted root
ChainValidAt(protected, t) ==
    /\ protected.x5c # <<>>
    /\ protected.x5c[1].DNSName = "attest.android.com"
    /\ \A i \in 1..Len(protected.x5c) :
          protected.x5c[i].NotBefore <= t /\ t <= protected.x5c[i].NotAfter
    /\ protected.issuerTrusted

ChainOK(c) == OneSignature(c) /\ ChainValidAt(Response(c).Signatures[1].Protected, CurrentTime[c])

SignedByLeaf(c) ==
    /\ OneSignature(c)
    /\ Response(c).Signatures[1].Protected.x5c # <<>>
    /\ Response(c).Signatures[1].signer = Response(c).Signatures[1].Protected.x5c[1].PublicKey

PayloadDecodes(c) == ParsesOK(c) /\ Response(c).payload.json

NonceMatches(c) ==
    ParsesOK(c) /\ Response(c).payload.nonce = Sum256(RawOf(c) \o clientDataHash[c])

ProfileMatches(c) == ParsesOK(c) /\ Response(c).payload.ctsProfileMatch

\* everything up to and including the payload decode holds
ReachesBinding(c) ==
    VerOK(c) /\ OneSignature(c) /\ ChainOK(c) /\ SignedByLeaf(c) /\ PayloadDecodes(c)

AllHold(c) == ReachesBinding(c) /\ NonceMatches(c) /\ ProfileMatches(c)

\* the first check, in the order of the function body, that the inputs of call c fail
FirstFailing(c) ==
    IF ~VerOK(c) THEN "ver"
    ELSE IF ~ResponseOK(c) THEN "response"
    ELSE IF ~ParsesOK(c) THEN "parse"
    ELSE IF ~OneSignature(c) THEN "count"
    ELSE IF ~ChainOK(c) THEN "certificates"
    ELSE IF ~SignedByLeaf(c) THEN "verify"
    ELSE IF ~PayloadDecodes(c) THEN "unmarshal"
    ELSE IF ~NonceMatches(c) THEN "nonce"
    ELSE IF ~ProfileMatches(c) THEN "cts"
    ELSE "none"

\* the result of the function on the inputs of call c run on their own
Alone(c) == verifyAndroidSafetynet(att[c], clientDataHash[c], RawOf(c), CurrentTime[c])

\* the attestation of call c with another payload / another ver entry
WithPayload(c, p) ==
    [att[c] EXCEPT !.AttStmt["response"].bytes.payload = p]

WithVer(c, v) == [att[c] EXCEPT !.AttStmt["ver"].str = v]

(* ------------------------------- C1 ----------------------------------- *)
\* C1: a finished call returned nil if and only if ver is a non-empty string,
\* response is a byte sequence that parses with exactly one signature, the chain
\* validates at the clock's time, the signature verifies under the leaf key, the
\* payload decodes, its nonce is SHA-256(raw ++ clientDataHash) and
\* ctsProfileMatch is true; otherwise it returned a failure.
C1_SuccessIffAllHold ==
    \A c \in DOMAIN pc : Done(c) => (ret[c].isNil <=> AllHold(c))

C1_Witness ==
    \E c \in DOMAIN pc : Done(c) /\ ret[c].isNil /\ AllHold(c)

(* ------------------------------- C2 ----------------------------------- *)
IsPrefix(a, b) == Len(a) <= Len(b) /\ SubSeq(b, 1, Len(a)) = a

ProperPrefix(a, b) == Len(a) < Len(b) /\ SubSeq(b, 1, Len(a)) = a

Timestamps == {0, 1}

C8_ExactlyOneReading ==
    \A c \in DOMAIN pc : Done(c) => clockReads[c] = 1

\* C8 (amended): a call reads the clock at most once: exactly once when it
\* reaches the certificate validation (ver and response well-formed, the response
\* parsed with one signature), never when it fails before; the value read is the
\* time the certificate validity check uses.
C8_AtMostOneReading ==
    \A c \in DOMAIN pc :
        /\ clockReads[c] <= 1
        /\ clockReads[c] = (IF "certificates" \in Checks(c) THEN 1 ELSE 0)
        /\ clockReads[c] = 0 <=> CurrentTime[c] = -1
        /\ Done(c) => (clockReads[c] = 1 <=> (VerOK(c) /\ OneSignature(c)))
        /\ (Done(c) /\ clockReads[c] = 1) =>
              /\ CurrentTime[c] \in Times
              /\ FailedAt(c, "certificates") <=> ~ChainOK(c)

C8_Witness ==
    \E c \in DOMAIN pc :
        /\ Done(c) /\ clockReads[c] = 1 /\ ChainOK(c) /\ ret[c].isNil

(* ------------------------------- C9 ----------------------------------- *)
\* C9: a failure that stems from a library error (parse, chain validation,
\* signature verification, payload decode) carries that error as its cause; every
\* other failure carries no cause.
C9_LibraryErrorsWrapped ==
    \A c \in DOMAIN pc :
        Failed(c) =>
            LET check == Last(trace[c]) IN
            /\ check = "parse" => ret[c].cause = ParseSignedErr(Response(c))
            /\ check = "certificates" =>
                  ret[c].cause = CertificatesErr(Response(c).Signatures[1].Protected,
                                    [DNSName |-> PinnedDNSName, CurrentTime |-> CurrentTime[c]])
            /\ check = "verify" => ret[c].cause = VerifyErr(Response(c), LeafKey)
            /\ check = "unmarshal" => ret[c].cause = UnmarshalErr(Response(c).payload)
            /\ check \in {"ver", "response", "count", "nonce", "cts"} => ret[c].cause = "nil"

(* ------------------------------- C10 ---------------------------------- *)
\* C10: a call leaves the caller's storage as it was, the bytes behind the
\* length of a.AuthData.Raw included, and a call running beside another one on
\* the same backing array computes the nonce over its own clientDataHash and
\* returns what it returns when run alone.
C10_WritesNothingGiven ==
    \A c \in DOMAIN pc :
        /\ (\A d \in DOMAIN pc : Done(d)) => heap[0] = buf0
        /\ Done(c) => ret[c] = Alone(c)
        /\ (Done(c) /\ expectedNonce[c] # <<>>) =>
              expectedNonce[c] = Sum256(RawOf(c) \o clientDataHash[c])

====
